---- MODULE Spec2Model ----
(***************************************************************************)
(* Offset-indexed containers of the Vector crate.                          *)
(*                                                                         *)
(* Two families are modelled:                                              *)
(*   - OwnedVector / BorrowedVector (owned_vector.rs, borrowed_vector.rs,  *)
(*     vector_error.rs): a Vec or slice plus an inclusive span             *)
(*     [start, end];                                                       *)
(*   - the fallback-overlay Vector<T> with its Info<T> (vector.rs,         *)
(*     info.rs).                                                           *)
(*                                                                         *)
(* usize is a bounded machine word 0..UsizeMax.  An overflowing + or -     *)
(* panics when the build has overflow checks (debug profile) and wraps     *)
(* otherwise (release profile); the variable overflow_checks fixes the     *)
(* build of a behaviour.  A panic ends the behaviour.                      *)
(***************************************************************************)
EXTENDS Integers, Sequences, FiniteSets, TLC

\* ------------------------------------------------------------------ bounds
\* usize::MAX of the modelled machine word.
UsizeMax == 7
\* Longest Vec / slice handed to a constructor.
MaxLen == 3

\* Longest data of a fallback-overlay Vector.
FMaxLen == 2

Modulus == UsizeMax + 1
Usize == 0..UsizeMax
\* isize::MAX: a Vec of one-byte elements cannot be longer.
IsizeMax == UsizeMax \div 2
\* The element type V (a Vectorable numeric type), two distinguishable values.
Elem == {0, 1}
\* V::default() of a numeric type.
DefaultElem == CHOOSE v \in Elem : \A w \in Elem : v <= w
\* Every Vec<V> / &[V] of at most MaxLen elements.
Data == UNION {[1..n -> Elem] : n \in 0..MaxLen}

\* The element type T of the fallback-overlay Vector: a signed integer type,
\* two bits wide.
T == {-2, -1, 0, 1}
TMin == CHOOSE v \in T : \A w \in T : v <= w
\* The pairs of fallback values handed to the constructors of Info.
FallbackIn == {<<0, 0>>, <<0, 1>>, <<1, 0>>}
\* The start indices handed to Info::new: both ends of the usize range.
StartIn == {0, UsizeMax - 1}
\* The elements of the Vec<T> handed to Vector::from_data; the minimum of T
\* enters a container through the arithmetic.
TIn == T \ {TMin}
\* Every such Vec<T> of at most FMaxLen elements.
FData == UNION {[1..n -> TIn] : n \in 0..FMaxLen}

VARIABLES
    overflow_checks,  \* TRUE: overflowing usize arithmetic panics; FALSE: it wraps
    owner,            \* Option<OwnedVector>: <<>> or <<[vector, start, end]>>
    view,             \* Option<BorrowedVector>: <<>> or <<[slice, start, end]>>
    view_by,          \* ghost: the call that produced the view ("none" without one)
    shadow,           \* ghost: index -> element constructed or last written there
    last,             \* the last call: operation, receiver, arguments, outcome
    fvec,             \* Option<Vector<T>>: <<>> or <<[data, info]>>
    fother,           \* Option<Vector<T>>: the right-hand operand during a call
    flast             \* the last call on the fallback-overlay family

ovars == <<owner, view, view_by, shadow, last>>
fvars == <<fvec, fother, flast>>
vars == <<overflow_checks, owner, view, view_by, shadow, last, fvec, fother, flast>>

\* ----------------------------------------------------------------- results
None == <<>>
Some(x) == <<x>>

Ok(v) == [tag |-> "Ok", val |-> v]
Panic == [tag |-> "Panic"]
ErrOrder(start, end) == [tag |-> "Err", kind |-> "Order", start |-> start, end |-> end]
ErrLength(len, start, end) ==
    [tag |-> "Err", kind |-> "Length", len |-> len, start |-> start, end |-> end]
ErrIndexing(index) == [tag |-> "Err", kind |-> "Indexing", index |-> index]

IsOk(r) == r.tag = "Ok"
IsErr(r) == r.tag = "Err"

\* ------------------------------------------------------- usize arithmetic
\* a + b on usize: Ok(sum), or Panic on overflow with overflow checks, or wrapped.
usize_add(a, b) ==
    IF a + b <= UsizeMax THEN Ok(a + b)
    ELSE IF overflow_checks THEN Panic
    ELSE Ok((a + b) % Modulus)

\* a - b on usize: Ok(difference), or Panic on underflow with overflow checks, or wrapped.
usize_sub(a, b) ==
    IF a >= b THEN Ok(a - b)
    ELSE IF overflow_checks THEN Panic
    ELSE Ok((a - b + Modulus) % Modulus)

\* usize::wrapping_sub: never panics.
wrapping_sub(a, b) == (a - b + Modulus) % Modulus

\* -------------------------------------------------------------- std slices
\* <[V]>::get(pos): the element at 0-based pos, or None.
slice_get(s, pos) == IF pos < Len(s) THEN Some(s[pos + 1]) ELSE None

\* &s[a..b]: panics when a > b or b > len.
index_range(s, a, b) ==
    IF a > b \/ b > Len(s) THEN Panic ELSE Ok(SubSeq(s, a + 1, b))

\* &s[a..=b]: panics when b == usize::MAX, and otherwise is &s[a..b+1].
index_range_inclusive(s, a, b) ==
    IF b = UsizeMax THEN Panic ELSE index_range(s, a, b + 1)

\* vec![value; n]: panics (capacity overflow) beyond isize::MAX elements.
vec_from_elem(value, n) ==
    IF n > IsizeMax THEN Panic ELSE Ok([k \in 1..n |-> value])

\* ------------------------------------------------------------ VectorError
check_order(start, end) ==
    IF start <= end THEN Ok(<<>>) ELSE ErrOrder(start, end)

check_len(len, start, end) ==
    LET lhs == usize_add(len, start)
        rhs == usize_add(end, 1)
    IN  IF lhs = Panic \/ rhs = Panic THEN Panic
        ELSE IF lhs.val = rhs.val THEN Ok(<<>>)
        ELSE ErrLength(len, start, end)

\* ------------------------------------------------------------ OwnedVector
OwnedVector_from_vec(vec, start, end) ==
    LET o == check_order(start, end)
        l == check_len(Len(vec), start, end)
    IN  IF ~IsOk(o) THEN o
        ELSE IF ~IsOk(l) THEN l
        ELSE Ok([vector |-> vec, start |-> start, end |-> end])

OwnedVector_from_num(value, start, end) ==
    LET o == check_order(start, end)
        n == usize_add(end - start, 1)
        vector == vec_from_elem(value, n.val)
    IN  IF ~IsOk(o) THEN o
        ELSE IF n = Panic THEN Panic
        ELSE IF vector = Panic THEN Panic
        ELSE Ok([vector |-> vector.val, start |-> start, end |-> end])

OwnedVector_new(start, end) == OwnedVector_from_num(DefaultElem, start, end)

\* vector![start; elements...]: end is start + len - 1, or start for an empty
\* list; the Result of from_vec is unwrapped.
vector_macro(start, elements) ==
    LET len == Len(elements)
        sum == usize_add(start, len)
        end == IF len > 0
               THEN IF sum = Panic THEN Panic ELSE usize_sub(sum.val, 1)
               ELSE Ok(start)
        r == OwnedVector_from_vec(elements, start, end.val)
    IN  IF end = Panic THEN Panic
        ELSE IF IsOk(r) THEN r
        ELSE Panic

\* ---------------------------------------------------------- BorrowedVector
BorrowedVector_try_new(slice, start, end) ==
    LET o == check_order(start, end)
        l == check_len(Len(slice), start, end)
    IN  IF ~IsOk(o) THEN o
        ELSE IF ~IsOk(l) THEN l
        ELSE Ok([slice |-> slice, start |-> start, end |-> end])

\* assert!(..is_ok()) twice: a panic instead of an error.
BorrowedVector_new(slice, start, end) ==
    IF ~IsOk(check_order(start, end)) THEN Panic
    ELSE IF ~IsOk(check_len(Len(slice), start, end)) THEN Panic
    ELSE Ok([slice |-> slice, start |-> start, end |-> end])

BorrowedVector_get(self, index) ==
    LET e == slice_get(self.slice, wrapping_sub(index, self.start))
    IN  IF e = None THEN ErrIndexing(index) ELSE Ok(e[1])

BorrowedVector_get_absolute(self, index) ==
    LET e == slice_get(self.slice, index)
    IN  IF e = None THEN ErrIndexing(index) ELSE Ok(e[1])

\* A slice that takes a lower bound equal to its own start for out of bounds.
BorrowedVector_slice_strict(self, start, end) ==
    IF start > self.start /\ end <= self.end
    THEN LET internal_start == usize_sub(start, self.start)
             internal_end == usize_sub(end, self.start)
             slice == index_range_inclusive(self.slice, internal_start.val, internal_end.val)
         IN  IF internal_start = Panic \/ internal_end = Panic THEN Panic
             ELSE IF slice = Panic THEN Panic
             ELSE BorrowedVector_try_new(slice.val, start, end)
    ELSE ErrIndexing(IF start < self.start THEN start ELSE end)

BorrowedVector_slice(self, start, end) ==
    IF start >= self.start /\ end <= self.end
    THEN LET internal_start == usize_sub(start, self.start)
             internal_end == usize_sub(end, self.start)
             slice == index_range_inclusive(self.slice, internal_start.val, internal_end.val)
         IN  IF internal_start = Panic \/ internal_end = Panic THEN Panic
             ELSE IF slice = Panic THEN Panic
             ELSE BorrowedVector_try_new(slice.val, start, end)
    ELSE ErrIndexing(IF start < self.start THEN start ELSE end)

BorrowedVector_len(self) == Len(self.slice)

BorrowedVector_get_range(self, start, end) ==
    LET o == check_order(start, end)
        bound == usize_add(self.end, 1)
    IN  IF ~IsOk(o) THEN o
        ELSE IF start < self.start THEN ErrIndexing(self.start)
        ELSE IF bound = Panic THEN Panic
        ELSE IF end > bound.val THEN ErrIndexing(self.end)
        ELSE index_range(self.slice, start - self.start, end - self.start)

BorrowedVector_get_range_inclusive(self, start, end) ==
    LET o == check_order(start, end)
    IN  IF ~IsOk(o) THEN o
        ELSE IF start < self.start THEN ErrIndexing(self.start)
        ELSE IF end > self.end THEN ErrIndexing(self.end)
        ELSE index_range_inclusive(self.slice, start - self.start, end - self.start)

\* ------------------------------------------------- OwnedVector, continued
\* A get whose offset saturates at 0 instead of wrapping below start.
OwnedVector_get_saturating(self, index) ==
    LET pos == IF index >= self.start THEN index - self.start ELSE 0
        e == slice_get(self.vector, pos)
    IN  IF e = None THEN ErrIndexing(index) ELSE Ok(e[1])

OwnedVector_get(self, index) ==
    LET e == slice_get(self.vector, wrapping_sub(index, self.start))
    IN  IF e = None THEN ErrIndexing(index) ELSE Ok(e[1])

OwnedVector_get_absolute(self, index) ==
    LET e == slice_get(self.vector, index)
    IN  IF e = None THEN ErrIndexing(index) ELSE Ok(e[1])

OwnedVector_slice(self, start, end) ==
    IF start >= self.start /\ end <= self.end
    THEN LET internal_start == usize_sub(start, self.start)
             internal_end == usize_sub(end, self.start)
             slice == index_range_inclusive(self.vector, internal_start.val, internal_end.val)
         IN  IF internal_start = Panic \/ internal_end = Panic THEN Panic
             ELSE IF slice = Panic THEN Panic
             ELSE BorrowedVector_try_new(slice.val, start, end)
    ELSE ErrIndexing(IF start < self.start THEN start ELSE end)

OwnedVector_len(self) == Len(self.vector)

OwnedVector_get_range(self, start, end) ==
    LET o == check_order(start, end)
        bound == usize_add(self.end, 1)
    IN  IF ~IsOk(o) THEN o
        ELSE IF start < self.start THEN ErrIndexing(self.start)
        ELSE IF bound = Panic THEN Panic
        ELSE IF end > bound.val THEN ErrIndexing(self.end)
        ELSE index_range(self.vector, start - self.start, end - self.start)

OwnedVector_get_range_inclusive(self, start, end) ==
    LET o == check_order(start, end)
    IN  IF ~IsOk(o) THEN o
        ELSE IF start < self.start THEN ErrIndexing(self.start)
        ELSE IF end > self.end THEN ErrIndexing(self.end)
        ELSE index_range_inclusive(self.vector, start - self.start, end - self.start)

OwnedVector_as_slice(self) == self.vector

OwnedVector_to_borrowed(self) ==
    BorrowedVector_try_new(OwnedVector_as_slice(self), self.start, self.end)

\* self[index] = value through IndexMut: Ok(the updated struct), or a panic when
\* the wrapped position is outside the Vec.
OwnedVector_index_mut(self, index, value) ==
    LET pos == wrapping_sub(index, self.start)
    IN  IF pos < Len(self.vector)
        THEN Ok([self EXCEPT !.vector[pos + 1] = value])
        ELSE Panic

\* for e in self.iter_mut() { *e = .. }: every element may change, in storage
\* order; the Vec keeps its length.
OwnedVector_iter_mut(self, values) ==
    [self EXCEPT !.vector = [k \in 1..Len(self.vector) |-> values[k]]]


\* ----------------------------------------------------------- trait Vector
\* An end() that is one past the last index.
BorrowedVector_end_exclusive(self) == self.start + Len(self.slice)

OwnedVector_start(self) == self.start
OwnedVector_end(self) == self.end
BorrowedVector_start(self) == self.start
BorrowedVector_end(self) == self.end

ErrCompatibility(start_1, start_2, end_1, end_2) ==
    [tag |-> "Err", kind |-> "Compatibility",
     start_1 |-> start_1, start_2 |-> start_2, end_1 |-> end_1, end_2 |-> end_2]

\* A container behind the trait: its variant and its value.
Dyn(variant, c) == [variant |-> variant, c |-> c]
trait_start(x) ==
    IF x.variant = "owned" THEN OwnedVector_start(x.c) ELSE BorrowedVector_start(x.c)
trait_end(x) ==
    IF x.variant = "owned" THEN OwnedVector_end(x.c) ELSE BorrowedVector_end(x.c)

\* Vector::compatible, the provided method of the trait.
compatible(self, other) ==
    IF trait_start(self) = trait_start(other) /\ trait_end(self) = trait_end(other)
    THEN Ok(<<>>)
    ELSE ErrCompatibility(trait_start(self), trait_start(other),
                          trait_end(self), trait_end(other))

\* ------------------------------------------------------------ T arithmetic
\* The value x wrapped into T, as two's complement arithmetic wraps.
t_wrap(x) == ((x - TMin) % Cardinality(T)) + TMin

\* The outcome of an arithmetic operation on T whose exact result is x.
t_checked(x) ==
    IF x \in T THEN Ok(x)
    ELSE IF overflow_checks THEN Panic
    ELSE Ok(t_wrap(x))

t_add(a, b) == t_checked(a + b)
t_sub(a, b) == t_checked(a - b)
t_mul(a, b) == t_checked(a * b)
t_neg(a) == t_checked(0 - a)

\* a / b on a signed integer type: truncates towards zero, panics on a zero
\* divisor and on an overflowing quotient in every build.
t_div(a, b) ==
    IF b = 0 THEN Panic
    ELSE LET abs(x) == IF x < 0 THEN 0 - x ELSE x
             q == abs(a) \div abs(b)
             r == IF (a < 0) = (b < 0) THEN q ELSE 0 - q
         IN  IF r \in T THEN Ok(r) ELSE Panic

\* The closure of an elementwise operation: *a + *b, *a - *b, *a * *b, *a / *b
\* (b an element or the scalar), -*a.
t_apply(op, a, b) ==
    CASE op = "add" -> t_add(a, b)
      [] op = "sub" -> t_sub(a, b)
      [] op = "mul" -> t_mul(a, b)
      [] op = "div" -> t_div(a, b)
      [] op = "neg" -> t_neg(a)

\* iter().zip(other.iter()).map(f).collect(): as long as the shorter operand.
zip_map(op, a, b) ==
    LET n == IF Len(a) <= Len(b) THEN Len(a) ELSE Len(b)
        rs == [k \in 1..n |-> t_apply(op, a[k], b[k])]
    IN  IF \E k \in 1..n : rs[k] = Panic THEN Panic
        ELSE Ok([k \in 1..n |-> rs[k].val])

\* iter_mut().zip(other.iter()).for_each(f): the elements beyond the shorter
\* operand keep their value.
zip_for_each(op, a, b) ==
    LET m == zip_map(op, a, b)
    IN  IF m = Panic THEN Panic
        ELSE Ok([k \in 1..Len(a) |-> IF k <= Len(m.val) THEN m.val[k] ELSE a[k]])

\* iter().map(f).collect(), f closing over the scalar other.
iter_map(op, a, other) ==
    LET rs == [k \in 1..Len(a) |-> t_apply(op, a[k], other)]
    IN  IF \E k \in 1..Len(a) : rs[k] = Panic THEN Panic
        ELSE Ok([k \in 1..Len(a) |-> rs[k].val])

\* ------------------------------------------------------------------- Info
ErrInvalidInterval(start, end) ==
    [tag |-> "Err", kind |-> "InvalidInterval", start |-> start, end |-> end]

InfoError_check_interval(start, end) ==
    IF start <= end THEN Ok(<<>>) ELSE ErrInvalidInterval(start, end)

Info_new(start, end, fallback_start, fallback_end) ==
    LET c == InfoError_check_interval(start, end)
    IN  IF ~IsOk(c) THEN c
        ELSE Ok([start |-> start, end |-> end,
                 fallback_start |-> fallback_start, fallback_end |-> fallback_end])

Info_new_single_fallback(start, end, fallback) ==
    LET c == InfoError_check_interval(start, end)
    IN  IF ~IsOk(c) THEN c
        ELSE Ok([start |-> start, end |-> end,
                 fallback_start |-> fallback, fallback_end |-> fallback])

\* self.end - self.start + 1: Ok(length), or the panic of the overflowing sum.
Info_len(self) == usize_add(self.end - self.start, 1)

\* ------------------------------------------------- fallback-overlay Vector
ErrIncompatibleInterval(start_1, end_1, start_2, end_2) ==
    [tag |-> "Err", kind |-> "IncompatibleInterval",
     start_1 |-> start_1, end_1 |-> end_1, start_2 |-> start_2, end_2 |-> end_2]
ErrInvalidLength(vector_length, info_length) ==
    [tag |-> "Err", kind |-> "InvalidLength",
     vector_length |-> vector_length, info_length |-> info_length]
ErrIncompatibleFallback == [tag |-> "Err", kind |-> "IncompatibleFallback"]

VectorError_check_interval(info_1, info_2) ==
    IF info_1.start = info_2.start /\ info_1.end = info_2.end THEN Ok(<<>>)
    ELSE ErrIncompatibleInterval(info_1.start, info_1.end, info_2.start, info_2.end)

VectorError_check_length(vector, info) ==
    LET n == Info_len(info)
    IN  IF n = Panic THEN Panic
        ELSE IF Len(vector) = n.val THEN Ok(<<>>)
        ELSE ErrInvalidLength(Len(vector), n.val)

VectorError_check_fallback(info_1, info_2) ==
    IF /\ info_1.fallback_start = info_2.fallback_start
       /\ info_1.fallback_end = info_2.fallback_end
    THEN Ok(<<>>)
    ELSE ErrIncompatibleFallback

\* Vec::with_capacity(info.len()): an empty Vec; the capacity is refused
\* (a panic) beyond isize::MAX.
Vector_with_capacity(info) ==
    LET n == Info_len(info)
    IN  IF n = Panic THEN Panic
        ELSE IF n.val > IsizeMax THEN Panic
        ELSE Ok([data |-> <<>>, info |-> info])

Vector_with_value(value, info) ==
    LET n == Info_len(info)
        data == vec_from_elem(value, n.val)
    IN  IF n = Panic THEN Panic
        ELSE IF data = Panic THEN Panic
        ELSE Ok([data |-> data.val, info |-> info])

Vector_from_data(data, info) ==
    LET c == VectorError_check_length(data, info)
    IN  IF ~IsOk(c) THEN c ELSE Ok([data |-> data, info |-> info])

Vector_len(self) == Info_len(self.info)

\* Some(position of the element) or None; indexing the Vec may panic.
Vector_get_mut(self, index) ==
    IF index >= self.info.start /\ index <= self.info.end
    THEN IF index - self.info.start < Len(self.data)
         THEN Ok(Some(index - self.info.start))
         ELSE Panic
    ELSE Ok(None)

\* The two compatibility checks every binary operation starts with.
compatible_infos(self, other) ==
    LET i == VectorError_check_interval(self.info, other.info)
    IN  IF ~IsOk(i) THEN i ELSE VectorError_check_fallback(self.info, other.info)

\* A try_*_assign that writes the elements before it checks the operands.
try_assign_self_eager(op, self, other) ==
    LET d == zip_for_each(op, self.data, other.data)
    IN  IF d = Panic THEN self ELSE [self EXCEPT !.data = d.val]

\* *self after a try_*_assign: both checks return before the first write.  A
\* panic of T unwinds with *self out of reach.
try_assign_self(op, self, other) ==
    LET c == compatible_infos(self, other)
        d == zip_for_each(op, self.data, other.data)
    IN  IF ~IsOk(c) THEN self
        ELSE IF d = Panic THEN self
        ELSE [self EXCEPT !.data = d.val]

\* A try_*_assign: Ok(self after the call), the error, or a panic of T.
try_assign(op, self, other) ==
    LET c == compatible_infos(self, other)
        d == zip_for_each(op, self.data, other.data)
    IN  IF ~IsOk(c) THEN c
        ELSE IF d = Panic THEN Panic
        ELSE Ok(try_assign_self(op, self, other))

Vector_try_add_assign(self, other) == try_assign("add", self, other)
Vector_try_sub_assign(self, other) == try_assign("sub", self, other)
Vector_try_mul_assign(self, other) == try_assign("mul", self, other)
Vector_try_div_assign(self, other) == try_assign("div", self, other)

Vector_index(self, index) ==
    IF index < self.info.start THEN Ok(self.info.fallback_start)
    ELSE IF index > self.info.end THEN Ok(self.info.fallback_end)
    ELSE IF index - self.info.start < Len(self.data)
    THEN Ok(self.data[index - self.info.start + 1])
    ELSE Panic

\* self[index] = value: Ok(self after the write), or a panic.
Vector_index_mut(self, index, value) ==
    IF index < self.info.start \/ index > self.info.end THEN Panic
    ELSE IF index - self.info.start < Len(self.data)
    THEN Ok([self EXCEPT !.data[index - self.info.start + 1] = value])
    ELSE Panic

\* A binary operator on two &Vector: Ok(the new Vector), the error, or a panic of T.
binary(op, self, other) ==
    LET c == compatible_infos(self, other)
        new_data == zip_map(op, self.data, other.data)
    IN  IF ~IsOk(c) THEN c
        ELSE IF new_data = Panic THEN Panic
        ELSE Ok([data |-> new_data.val, info |-> self.info])

\* An addition that subtracts.
Vector_add_subtracting(self, other) == binary("sub", self, other)

Vector_add(self, other) == binary("add", self, other)
Vector_sub(self, other) == binary("sub", self, other)
Vector_mul(self, other) == binary("mul", self, other)
Vector_div(self, other) == binary("div", self, other)

\* A unary or scalar operator: Ok(the new Vector), or a panic of T.
unary(op, self, other) ==
    LET new_data == iter_map(op, self.data, other)
    IN  IF new_data = Panic THEN Panic
        ELSE Ok([data |-> new_data.val, info |-> self.info])

Vector_neg(self) == unary("neg", self, 0)
Vector_mul_scalar(self, other) == unary("mul", self, other)
Vector_div_scalar(self, other) == unary("div", self, other)

\* A caller that drops the error of a try_*_assign.
unwrap_dropping(r) == IF r = Panic THEN Panic ELSE Ok(<<>>)

\* Result::unwrap of a try_*_assign.
unwrap(r) == IF IsOk(r) THEN r ELSE Panic

Vector_add_assign(self, other) == unwrap(Vector_try_add_assign(self, other))
Vector_sub_assign(self, other) == unwrap(Vector_try_sub_assign(self, other))
Vector_mul_assign(self, other) == unwrap(Vector_try_mul_assign(self, other))
Vector_div_assign(self, other) == unwrap(Vector_try_div_assign(self, other))

\* ------------------------------------------------------------------ harness
Call(op, recv, a, b, data, out) ==
    [op |-> op, recv |-> recv, a |-> a, b |-> b, data |-> data, out |-> out]

\* The ghost contents of a freshly built container: index start + k holds data[k].
ShadowOf(data, start) ==
    [i \in {start + k : k \in 0..(Len(data) - 1)} |-> data[i - start + 1]]

\* The ghost contents after a write of value at index.
ShadowWrite(sh, index, value) ==
    [i \in (DOMAIN sh) \cup {index} |-> IF i = index THEN value ELSE sh[i]]

NoCall == Call("idle", None, 0, 0, <<>>, Ok(<<>>))

FCall(op, recv, a, other, out) ==
    [op |-> op, recv |-> recv, a |-> a, other |-> other, out |-> out]

FNoCall == FCall("idle", None, <<>>, None, Ok(<<>>))

Built(r) == IF IsOk(r) THEN Some(r.val) ELSE None

Init ==
    /\ overflow_checks \in BOOLEAN
    /\ owner = None
    /\ view = None
    /\ view_by = "none"
    /\ shadow = <<>>
    /\ last = NoCall
    /\ fvec = None
    /\ fother = None
    /\ flast = FNoCall

\* The program is between two calls: the previous one has returned.
Idle == last = NoCall

\* Constructors run when the program holds no container.
Empty == Idle /\ owner = None /\ view = None

\* The bound of the model on filled construction: at most MaxLen elements are
\* allocated, or the allocation is refused.
FillInBound(start, end) ==
    \/ start > end
    \/ end - start + 1 <= MaxLen
    \/ end - start + 1 > IsizeMax

FromVec ==
    /\ Empty
    /\ \E vec \in Data, start \in Usize, end \in Usize :
        LET r == OwnedVector_from_vec(vec, start, end)
        IN  /\ owner' = Built(r)
            /\ shadow' = IF IsOk(r) THEN ShadowOf(vec, start) ELSE <<>>
            /\ last' = Call("from_vec", None, start, end, vec, r)
    /\ UNCHANGED <<overflow_checks, view, view_by>>
    /\ UNCHANGED fvars

FromNum ==
    /\ Empty
    /\ \E value \in Elem, start \in Usize, end \in Usize :
        LET r == OwnedVector_from_num(value, start, end)
        IN  /\ FillInBound(start, end)
            /\ owner' = Built(r)
            /\ shadow' = IF IsOk(r) THEN ShadowOf(r.val.vector, start) ELSE <<>>
            /\ last' = Call("from_num", None, start, end, <<value>>, r)
    /\ UNCHANGED <<overflow_checks, view, view_by>>
    /\ UNCHANGED fvars

New ==
    /\ Empty
    /\ \E start \in Usize, end \in Usize :
        LET r == OwnedVector_new(start, end)
        IN  /\ FillInBound(start, end)
            /\ owner' = Built(r)
            /\ shadow' = IF IsOk(r) THEN ShadowOf(r.val.vector, start) ELSE <<>>
            /\ last' = Call("new", None, start, end, <<>>, r)
    /\ UNCHANGED <<overflow_checks, view, view_by>>
    /\ UNCHANGED fvars

VectorMacro ==
    /\ Empty
    /\ \E start \in Usize, elements \in Data :
        LET r == vector_macro(start, elements)
        IN  /\ owner' = Built(r)
            /\ shadow' = IF IsOk(r) THEN ShadowOf(elements, start) ELSE <<>>
            /\ last' = Call("vector!", None, start, 0, elements, r)
    /\ UNCHANGED <<overflow_checks, view, view_by>>
    /\ UNCHANGED fvars

\* BorrowedVector::try_new over a slice that no OwnedVector of the program owns.
TryNew ==
    /\ Empty
    /\ \E slice \in Data, start \in Usize, end \in Usize :
        LET r == BorrowedVector_try_new(slice, start, end)
        IN  /\ view' = Built(r)
            /\ view_by' = IF IsOk(r) THEN "try_new" ELSE "none"
            /\ last' = Call("try_new", None, start, end, slice, r)
    /\ UNCHANGED <<overflow_checks, owner, shadow>>
    /\ UNCHANGED fvars

BorrowedNew ==
    /\ Empty
    /\ \E slice \in Data, start \in Usize, end \in Usize :
        LET r == BorrowedVector_new(slice, start, end)
        IN  /\ view' = Built(r)
            /\ view_by' = IF IsOk(r) THEN "new" ELSE "none"
            /\ last' = Call("borrowed_new", None, start, end, slice, r)
    /\ UNCHANGED <<overflow_checks, owner, shadow>>
    /\ UNCHANGED fvars

\* The containers go out of scope.
Drop ==
    /\ Idle
    /\ owner # None \/ view # None
    /\ owner' = None
    /\ view' = None
    /\ view_by' = "none"
    /\ shadow' = <<>>
    /\ UNCHANGED <<overflow_checks, last>>
    /\ UNCHANGED fvars

\* The program may call through &self on its OwnedVector.
OwnedReady == Idle /\ owner # None

Get ==
    /\ OwnedReady
    /\ \E index \in Usize :
        last' = Call("get", owner, index, 0, <<>>, OwnedVector_get(owner[1], index))
    /\ UNCHANGED <<overflow_checks, owner, view, view_by, shadow>>
    /\ UNCHANGED fvars

GetAbsolute ==
    /\ OwnedReady
    /\ \E index \in Usize :
        last' = Call("get_absolute", owner, index, 0, <<>>,
                     OwnedVector_get_absolute(owner[1], index))
    /\ UNCHANGED <<overflow_checks, owner, view, view_by, shadow>>
    /\ UNCHANGED fvars

GetRange ==
    /\ OwnedReady
    /\ \E start \in Usize, end \in Usize :
        last' = Call("get_range", owner, start, end, <<>>,
                     OwnedVector_get_range(owner[1], start, end))
    /\ UNCHANGED <<overflow_checks, owner, view, view_by, shadow>>
    /\ UNCHANGED fvars

GetRangeInclusive ==
    /\ OwnedReady
    /\ \E start \in Usize, end \in Usize :
        last' = Call("get_range_inclusive", owner, start, end, <<>>,
                     OwnedVector_get_range_inclusive(owner[1], start, end))
    /\ UNCHANGED <<overflow_checks, owner, view, view_by, shadow>>
    /\ UNCHANGED fvars

\* owner.slice(start, end): the program keeps the new view when there is one.
Slice ==
    /\ OwnedReady
    /\ \E start \in Usize, end \in Usize :
        LET r == OwnedVector_slice(owner[1], start, end)
        IN  /\ view' = IF IsOk(r) THEN Some(r.val) ELSE view
            /\ view_by' = IF IsOk(r) THEN "slice" ELSE view_by
            /\ last' = Call("slice", owner, start, end, <<>>, r)
    /\ UNCHANGED <<overflow_checks, owner, shadow>>
    /\ UNCHANGED fvars

ToBorrowed ==
    /\ OwnedReady
    /\ LET r == OwnedVector_to_borrowed(owner[1])
       IN  /\ view' = IF IsOk(r) THEN Some(r.val) ELSE view
           /\ view_by' = IF IsOk(r) THEN "to_borrowed" ELSE view_by
           /\ last' = Call("to_borrowed", owner, 0, 0, <<>>, r)
    /\ UNCHANGED <<overflow_checks, owner, shadow>>
    /\ UNCHANGED fvars

\* owner[index] = value: the mutable borrow ends every view of the owner.
IndexMut ==
    /\ OwnedReady
    /\ \E index \in Usize, value \in Elem :
        LET r == OwnedVector_index_mut(owner[1], index, value)
        IN  /\ owner' = IF IsOk(r) THEN Some(r.val) ELSE owner
            /\ shadow' = IF IsOk(r) THEN ShadowWrite(shadow, index, value) ELSE shadow
            /\ last' = Call("index_mut", owner, index, 0, <<value>>, r)
    /\ view' = None
    /\ view_by' = "none"
    /\ UNCHANGED overflow_checks
    /\ UNCHANGED fvars

\* A loop over owner.iter_mut() assigning values[k] to the k-th element.
IterMut ==
    /\ OwnedReady
    /\ \E values \in Data :
        /\ Len(values) = OwnedVector_len(owner[1])
        /\ LET o == OwnedVector_iter_mut(owner[1], values)
           IN  /\ owner' = Some(o)
               /\ shadow' = ShadowOf(values, o.start)
               /\ last' = Call("iter_mut", owner, 0, 0, values, Ok(<<>>))
    /\ view' = None
    /\ view_by' = "none"
    /\ UNCHANGED overflow_checks
    /\ UNCHANGED fvars

\* The program may call through &self on its BorrowedVector.
BorrowedReady == Idle /\ view # None

\* The receiver as the log keeps it: the BorrowedVector and the call it came from.
BorrowedRecv == <<view[1], view_by>>

BGet ==
    /\ BorrowedReady
    /\ \E index \in Usize :
        last' = Call("b_get", BorrowedRecv, index, 0, <<>>,
                     BorrowedVector_get(view[1], index))
    /\ UNCHANGED <<overflow_checks, owner, view, view_by, shadow>>
    /\ UNCHANGED fvars

BGetAbsolute ==
    /\ BorrowedReady
    /\ \E index \in Usize :
        last' = Call("b_get_absolute", BorrowedRecv, index, 0, <<>>,
                     BorrowedVector_get_absolute(view[1], index))
    /\ UNCHANGED <<overflow_checks, owner, view, view_by, shadow>>
    /\ UNCHANGED fvars

BGetRange ==
    /\ BorrowedReady
    /\ \E start \in Usize, end \in Usize :
        last' = Call("b_get_range", BorrowedRecv, start, end, <<>>,
                     BorrowedVector_get_range(view[1], start, end))
    /\ UNCHANGED <<overflow_checks, owner, view, view_by, shadow>>
    /\ UNCHANGED fvars

BGetRangeInclusive ==
    /\ BorrowedReady
    /\ \E start \in Usize, end \in Usize :
        last' = Call("b_get_range_inclusive", BorrowedRecv, start, end, <<>>,
                     BorrowedVector_get_range_inclusive(view[1], start, end))
    /\ UNCHANGED <<overflow_checks, owner, view, view_by, shadow>>
    /\ UNCHANGED fvars

\* view.slice(start, end): the program keeps the narrower view when there is one.
BSlice ==
    /\ BorrowedReady
    /\ \E start \in Usize, end \in Usize :
        LET r == BorrowedVector_slice(view[1], start, end)
        IN  /\ view' = IF IsOk(r) THEN Some(r.val) ELSE view
            /\ view_by' = IF IsOk(r) THEN "slice" ELSE view_by
            /\ last' = Call("b_slice", BorrowedRecv, start, end, <<>>, r)
    /\ UNCHANGED <<overflow_checks, owner, shadow>>
    /\ UNCHANGED fvars

\* The containers the program holds, behind the trait.
Held ==
    {Dyn("owned", owner[k]) : k \in DOMAIN owner}
    \cup {Dyn("borrowed", view[k]) : k \in DOMAIN view}

\* Further containers of both variants, one per span the program can fill.
Others ==
    LET spans == {p \in Usize \X Usize : FillInBound(p[1], p[2])}
        owned == {r.val : r \in {x \in {OwnedVector_new(p[1], p[2]) : p \in spans} :
                      IsOk(x)}}
        borrowed == {r.val : r \in {x \in {OwnedVector_to_borrowed(o) : o \in owned} :
                      IsOk(x)}}
    IN  {Dyn("owned", o) : o \in owned} \cup {Dyn("borrowed", b) : b \in borrowed}

\* a.compatible(&b) with a a container the program holds.
Compatible ==
    /\ Idle
    /\ Held # {}
    /\ \E x \in Held, y \in Held \cup Others :
        last' = Call("compatible", Some(x), 0, 0, <<y>>, compatible(x, y))
    /\ UNCHANGED <<overflow_checks, owner, view, view_by, shadow>>
    /\ UNCHANGED fvars

\* VectorError::check_len on its own, over every length and span of usize.
CheckLen ==
    /\ Empty
    /\ \E len \in Usize, start \in Usize, end \in Usize :
        last' = Call("check_len", None, start, end, <<len>>, check_len(len, start, end))
    /\ UNCHANGED <<overflow_checks, owner, view, view_by, shadow>>
    /\ UNCHANGED fvars

\* The call returns and the caller takes its outcome.  A panic unwinds the
\* program instead: nothing runs after it.
Return ==
    /\ ~Idle
    /\ last.out.tag # "Panic"
    /\ last' = NoCall
    /\ UNCHANGED <<overflow_checks, owner, view, view_by, shadow>>
    /\ UNCHANGED fvars

Next ==
    \/ FromVec
    \/ FromNum
    \/ New
    \/ VectorMacro
    \/ TryNew
    \/ BorrowedNew
    \/ Drop
    \/ Get
    \/ GetAbsolute
    \/ GetRange
    \/ GetRangeInclusive
    \/ Slice
    \/ ToBorrowed
    \/ IndexMut
    \/ IterMut
    \/ BGet
    \/ BGetAbsolute
    \/ BGetRange
    \/ BGetRangeInclusive
    \/ BSlice
    \/ CheckLen
    \/ Compatible
    \/ Return

Spec == Init /\ [][Next]_vars

\* ------------------------------------------ harness, fallback-overlay Vector
\* The program is between two calls on the overlay container.
FIdle == flast = FNoCall
FEmpty == FIdle /\ fvec = None
FReady == FIdle /\ fvec # None

\* The Info values the program can build.
Infos ==
    LET rs == {Info_new(start, end, f[1], f[2]) :
                   start \in StartIn, end \in Usize, f \in FallbackIn}
              \cup {Info_new_single_fallback(start, end, f[1]) :
                   start \in StartIn, end \in Usize,
                   f \in {g \in FallbackIn : g[1] = g[2]}}
    IN  {r.val : r \in {x \in rs : IsOk(x)}}

\* The bound of the model on filled construction: at most FMaxLen elements are
\* allocated, or the allocation is refused.
FFillInBound(info) ==
    \/ info.end - info.start + 1 <= FMaxLen
    \/ info.end - info.start + 1 > IsizeMax

\* The overlay containers the program can build, as right-hand operands.
Operands ==
    LET rs == {Vector_from_data(data, info) : data \in FData, info \in Infos}
              \cup {Vector_with_capacity(info) : info \in Infos}
    IN  {r.val : r \in {x \in rs : IsOk(x)}}

BinaryOps == {"add", "sub", "mul", "div"}

try_assign_of(op, self, other) ==
    CASE op = "add" -> Vector_try_add_assign(self, other)
      [] op = "sub" -> Vector_try_sub_assign(self, other)
      [] op = "mul" -> Vector_try_mul_assign(self, other)
      [] op = "div" -> Vector_try_div_assign(self, other)

assign_of(op, self, other) ==
    CASE op = "add" -> Vector_add_assign(self, other)
      [] op = "sub" -> Vector_sub_assign(self, other)
      [] op = "mul" -> Vector_mul_assign(self, other)
      [] op = "div" -> Vector_div_assign(self, other)

binary_of(op, self, other) ==
    CASE op = "add" -> Vector_add(self, other)
      [] op = "sub" -> Vector_sub(self, other)
      [] op = "mul" -> Vector_mul(self, other)
      [] op = "div" -> Vector_div(self, other)

scalar_of(op, self, other) ==
    CASE op = "mul" -> Vector_mul_scalar(self, other)
      [] op = "div" -> Vector_div_scalar(self, other)

WithCapacity ==
    /\ FEmpty
    /\ \E info \in Infos :
        LET r == Vector_with_capacity(info)
        IN  /\ fvec' = Built(r)
            /\ flast' = FCall("with_capacity", None, <<info>>, None, r)
    /\ fother' = None
    /\ UNCHANGED overflow_checks
    /\ UNCHANGED ovars

WithValue ==
    /\ FEmpty
    /\ \E value \in T, info \in Infos :
        LET r == Vector_with_value(value, info)
        IN  /\ FFillInBound(info)
            /\ fvec' = Built(r)
            /\ flast' = FCall("with_value", None, <<value, info>>, None, r)
    /\ fother' = None
    /\ UNCHANGED overflow_checks
    /\ UNCHANGED ovars

FromData ==
    /\ FEmpty
    /\ \E data \in FData, info \in Infos :
        LET r == Vector_from_data(data, info)
        IN  /\ fvec' = Built(r)
            /\ flast' = FCall("from_data", None, <<data, info>>, None, r)
    /\ fother' = None
    /\ UNCHANGED overflow_checks
    /\ UNCHANGED ovars

FDrop ==
    /\ FReady
    /\ fvec' = None
    /\ UNCHANGED flast
    /\ fother' = None
    /\ UNCHANGED overflow_checks
    /\ UNCHANGED ovars

\* v[index]
FIndex ==
    /\ FReady
    /\ \E index \in Usize :
        flast' = FCall("index", fvec, <<index>>, None, Vector_index(fvec[1], index))
    /\ UNCHANGED fvec
    /\ fother' = None
    /\ UNCHANGED overflow_checks
    /\ UNCHANGED ovars

\* v[index] = value
FIndexMut ==
    /\ FReady
    /\ \E index \in Usize, value \in T :
        LET r == Vector_index_mut(fvec[1], index, value)
        IN  /\ fvec' = IF IsOk(r) THEN Some(r.val) ELSE fvec
            /\ flast' = FCall("index_mut", fvec, <<index, value>>, None, r)
    /\ fother' = None
    /\ UNCHANGED overflow_checks
    /\ UNCHANGED ovars

\* if let Some(x) = v.get_mut(index) { *x = value }
FGetMut ==
    /\ FReady
    /\ \E index \in Usize, value \in T :
        LET r == Vector_get_mut(fvec[1], index)
        IN  /\ fvec' = IF IsOk(r) /\ r.val # None
                       THEN Some([fvec[1] EXCEPT !.data[r.val[1] + 1] = value])
                       ELSE fvec
            /\ flast' = FCall("get_mut", fvec, <<index, value>>, None, r)
    /\ fother' = None
    /\ UNCHANGED overflow_checks
    /\ UNCHANGED ovars

\* v.try_add_assign(&other), v.try_sub_assign(&other), ...
TryAssign ==
    /\ FReady
    /\ \E op \in BinaryOps, other \in Operands :
        LET r == try_assign_of(op, fvec[1], other)
        IN  /\ fvec' = Some(try_assign_self(op, fvec[1], other))
            /\ fother' = Some(other)
            /\ flast' = FCall("try_" \o op \o "_assign", fvec, <<>>, Some(other), r)
    /\ UNCHANGED overflow_checks
    /\ UNCHANGED ovars

\* v += &other, v -= &other, ...
OpAssign ==
    /\ FReady
    /\ \E op \in BinaryOps, other \in Operands :
        LET r == assign_of(op, fvec[1], other)
        IN  /\ fvec' = Some(try_assign_self(op, fvec[1], other))
            /\ fother' = Some(other)
            /\ flast' = FCall(op \o "_assign", fvec, <<>>, Some(other), r)
    /\ UNCHANGED overflow_checks
    /\ UNCHANGED ovars

\* &v + &other, &v - &other, ...
Binary ==
    /\ FReady
    /\ \E op \in BinaryOps, other \in Operands :
        /\ fother' = Some(other)
        /\ flast' = FCall(op, fvec, <<>>, Some(other), binary_of(op, fvec[1], other))
    /\ UNCHANGED fvec
    /\ UNCHANGED overflow_checks
    /\ UNCHANGED ovars

\* -&v
Neg ==
    /\ FReady
    /\ flast' = FCall("neg", fvec, <<>>, None, Vector_neg(fvec[1]))
    /\ UNCHANGED fvec
    /\ fother' = None
    /\ UNCHANGED overflow_checks
    /\ UNCHANGED ovars

\* &v * other, &v / other with a scalar
Scalar ==
    /\ FReady
    /\ \E op \in {"mul", "div"}, other \in T :
        flast' = FCall(op \o "_scalar", fvec, <<other>>, None,
                       scalar_of(op, fvec[1], other))
    /\ UNCHANGED fvec
    /\ fother' = None
    /\ UNCHANGED overflow_checks
    /\ UNCHANGED ovars

\* The call returns; a panic unwinds the program instead.
FReturn ==
    /\ ~FIdle
    /\ flast.out.tag # "Panic"
    /\ flast' = FNoCall
    /\ UNCHANGED fvec
    /\ fother' = None
    /\ UNCHANGED overflow_checks
    /\ UNCHANGED ovars

NextFV ==
    \/ WithCapacity
    \/ WithValue
    \/ FromData
    \/ FDrop
    \/ FIndex
    \/ FIndexMut
    \/ FGetMut
    \/ TryAssign
    \/ OpAssign
    \/ Binary
    \/ Neg
    \/ Scalar
    \/ FReturn

SpecFV == Init /\ [][NextFV]_vars

\* ------------------------------------------------------------------ claims
\* The receiver of the last call, its storage and its kind.
OwnedOps == {"get", "get_absolute", "get_range", "get_range_inclusive", "slice",
             "to_borrowed", "index_mut", "iter_mut"}
BorrowedOps == {"b_get", "b_get_absolute", "b_get_range", "b_get_range_inclusive",
                "b_slice"}
Recv == last.recv[1]
RecvData == IF last.op \in OwnedOps THEN Recv.vector ELSE Recv.slice

\* The span is ordered and the storage holds exactly one element per index of it.
SpanHolds(start, end, data) == start <= end /\ Len(data) = end - start + 1

\* C1: every OwnedVector and BorrowedVector the program holds has start <= end
\* and a storage of exactly end - start + 1 elements.
C1_SpanMatchesStorage ==
    /\ owner # None => SpanHolds(owner[1].start, owner[1].end, owner[1].vector)
    /\ view # None => SpanHolds(view[1].start, view[1].end, view[1].slice)

\* What C2 says of from_vec / try_new with (data, start, end).
C2_Expected(data, start, end, built) ==
    IF start > end THEN ErrOrder(start, end)
    ELSE IF Len(data) # end - start + 1 THEN ErrLength(Len(data), start, end)
    ELSE Ok(built)

\* C2: from_vec and try_new fail with Order when start > end, otherwise with
\* Length when the storage is not end - start + 1 long, and otherwise succeed
\* with a container of that span and length.
C2_ConstructFromSequence ==
    /\ last.op = "from_vec" =>
        last.out = C2_Expected(last.data, last.a, last.b,
                               [vector |-> last.data, start |-> last.a, end |-> last.b])
    /\ last.op = "try_new" =>
        last.out = C2_Expected(last.data, last.a, last.b,
                               [slice |-> last.data, start |-> last.a, end |-> last.b])

\* C3: on an OwnedVector get(i), for i in [start, end], returns the element at
\* storage position i - start, which is the value last written at index i or
\* else the element constructed there; a write at an index of [start, end]
\* succeeds and leaves start and end alone.
C3_GetRoundTrip ==
    /\ (last.op = "get" /\ Recv.start <= last.a /\ last.a <= Recv.end) =>
        /\ last.a - Recv.start + 1 \in DOMAIN Recv.vector
        /\ last.a \in DOMAIN shadow
        /\ last.out = Ok(Recv.vector[last.a - Recv.start + 1])
        /\ last.out = Ok(shadow[last.a])
    /\ (last.op = "index_mut" /\ Recv.start <= last.a /\ last.a <= Recv.end) =>
        /\ IsOk(last.out)
        /\ owner[1].start = Recv.start
        /\ owner[1].end = Recv.end
        /\ \A i \in Recv.start..Recv.end :
            /\ i \in DOMAIN shadow
            /\ OwnedVector_get(owner[1], i) = Ok(shadow[i])

\* C4: get(i) with i < start or i > end returns Indexing{i} on both containers
\* and reads no element: below start the wrapped offset is at least the
\* storage length.
C4_GetOutOfRange ==
    (last.op \in {"get", "b_get"} /\ (last.a < Recv.start \/ last.a > Recv.end)) =>
        /\ last.out = ErrIndexing(last.a)
        /\ last.a < Recv.start => wrapping_sub(last.a, Recv.start) >= Len(RecvData)

\* C4 happens: a get below the start of a container whose span ends at usize::MAX.
C4_Witness ==
    /\ last.op = "get"
    /\ last.a < Recv.start
    /\ Recv.end = UsizeMax
    /\ Len(Recv.vector) > 0
    /\ last.out = ErrIndexing(last.a)

\* The reads of the receiver of the last call, whichever its kind.
RecvGet(i) ==
    IF last.op \in OwnedOps THEN OwnedVector_get(Recv, i) ELSE BorrowedVector_get(Recv, i)
RecvGetAbsolute(i) ==
    IF last.op \in OwnedOps THEN OwnedVector_get_absolute(Recv, i)
    ELSE BorrowedVector_get_absolute(Recv, i)

\* The second slice of container.slice(a, b).slice(c, d): a slice of a view
\* that a slice call produced.
C5_Case == last.op = "b_slice" /\ last.recv[2] = "slice"

C6_SliceOrderError ==
    (last.op \in {"slice", "b_slice"} /\ last.a > last.b) =>
        last.out = ErrOrder(last.a, last.b)

\* C7: slicing a container at its own bounds succeeds and the view has the
\* same start, end and length and answers get and get_absolute as the container
\* does, at every index.
C7_IdentitySlice ==
    (last.op \in {"slice", "b_slice"} /\ last.a = Recv.start /\ last.b = Recv.end) =>
        /\ IsOk(last.out)
        /\ last.out.val.start = Recv.start
        /\ last.out.val.end = Recv.end
        /\ BorrowedVector_len(last.out.val) = Len(RecvData)
        /\ \A i \in Usize :
            /\ BorrowedVector_get(last.out.val, i) = RecvGet(i)
            /\ BorrowedVector_get_absolute(last.out.val, i) = RecvGetAbsolute(i)

\* C8: to_borrowed always succeeds, keeps start and end, and the BorrowedVector
\* answers get, get_absolute, slice, get_range and get_range_inclusive as the
\* OwnedVector does, for every argument.
C8_ToBorrowedEquivalent ==
    last.op = "to_borrowed" =>
        /\ IsOk(last.out)
        /\ last.out.val.start = Recv.start
        /\ last.out.val.end = Recv.end
        /\ \A i \in Usize :
            /\ BorrowedVector_get(last.out.val, i) = OwnedVector_get(Recv, i)
            /\ BorrowedVector_get_absolute(last.out.val, i) = OwnedVector_get_absolute(Recv, i)
        /\ \A s \in Usize, e \in Usize :
            /\ BorrowedVector_slice(last.out.val, s, e) = OwnedVector_slice(Recv, s, e)
            /\ BorrowedVector_get_range(last.out.val, s, e) = OwnedVector_get_range(Recv, s, e)
            /\ BorrowedVector_get_range_inclusive(last.out.val, s, e)
                    = OwnedVector_get_range_inclusive(Recv, s, e)

\* The n elements of the container from offset index s on.
ElementsFrom(s, n) == [k \in 1..n |-> RecvData[s - Recv.start + k]]

\* C9: get_range(s, e) succeeds exactly when s <= e, s >= start and
\* e <= end + 1, with the elements at indices s..e-1; get_range_inclusive(s, e)
\* succeeds exactly when s <= e, s >= start and e <= end, with the elements at
\* indices s..e.
C9_RangeQueries ==
    LET s == last.a
        e == last.b
    IN  /\ last.op \in {"get_range", "b_get_range"} =>
            /\ IsOk(last.out) <=> (s <= e /\ s >= Recv.start /\ e <= Recv.end + 1)
            /\ IsOk(last.out) => last.out.val = ElementsFrom(s, e - s)
        /\ last.op \in {"get_range_inclusive", "b_get_range_inclusive"} =>
            /\ IsOk(last.out) <=> (s <= e /\ s >= Recv.start /\ e <= Recv.end)
            /\ IsOk(last.out) => last.out.val = ElementsFrom(s, e - s + 1)

\* The overlay container holds one element per index of the span of its Info.
OverlayLengthHolds(v) ==
    /\ Vector_len(v) = Ok(Len(v.data))
    /\ Len(v.data) = v.info.end - v.info.start + 1

ResultOps == BinaryOps \cup {"neg", "mul_scalar", "div_scalar"}

\* C10: the overlay Vector keeps data.len() == info.len() == end - start + 1:
\* the container the program holds after every constructor, indexed write and
\* try_*_assign, and every Vector returned by an elementwise, negation or scalar
\* operation.
C10_OverlayLength ==
    /\ fvec # None => OverlayLengthHolds(fvec[1])
    /\ flast.op \in ResultOps /\ IsOk(flast.out) => OverlayLengthHolds(flast.out.val)

\* The receiver and the right-hand operand of the last call on the overlay.
FRecv == flast.recv[1]
FOther == flast.other[1]

\* C11: v[index] on the overlay container is total over usize for every
\* constructible container: fallback_start when index < start, fallback_end when
\* index > end, otherwise the stored element at position index - start, and
\* never a panic.
C11_ReadIndexTotal ==
    flast.op = "index" =>
        LET index == flast.a[1]
            info == FRecv.info
        IN  /\ flast.out # Panic
            /\ index < info.start => flast.out = Ok(info.fallback_start)
            /\ index > info.end => flast.out = Ok(info.fallback_end)
            /\ (info.start <= index /\ index <= info.end) =>
                   /\ index - info.start < Len(FRecv.data)
                   /\ flast.out = Ok(FRecv.data[index - info.start + 1])

\* The names under which the calls of the binary operations are logged.
TryAssignOps == {"try_" \o op \o "_assign" : op \in BinaryOps}
AssignOps == {op \o "_assign" : op \in BinaryOps}
\* The elementwise operation behind a logged name.
OpOf(name) ==
    CHOOSE op \in BinaryOps : name \in {op, "try_" \o op \o "_assign", op \o "_assign"}

SameSpan(a, b) == a.info.start = b.info.start /\ a.info.end = b.info.end
SameFallback(a, b) ==
    /\ a.info.fallback_start = b.info.fallback_start
    /\ a.info.fallback_end = b.info.fallback_end

\* The container a binary operation on a and b is to produce: the span and
\* fallbacks of a, and op(a[k], b[k]) at every position k of the span.
IsElementwise(op, a, b, res) ==
    /\ res.info = a.info
    /\ Len(res.data) = a.info.end - a.info.start + 1
    /\ Len(a.data) = Len(res.data)
    /\ Len(b.data) = Len(res.data)
    /\ \A k \in 1..Len(res.data) : Ok(res.data[k]) = t_apply(op, a.data[k], b.data[k])

\* C12: add, sub, mul, div and the try_*_assign forms succeed iff both operands
\* have equal start, end and fallbacks; they report IncompatibleInterval with
\* both spans when the spans differ, IncompatibleFallback when only the
\* fallbacks differ, and on success the result has the operands' span and
\* fallbacks and op(a[k], b[k]) at each position k.
C12_BinaryCompatibility ==
    flast.op \in BinaryOps \cup TryAssignOps =>
        LET a == FRecv
            b == FOther
        IN  /\ IsOk(flast.out) <=> (SameSpan(a, b) /\ SameFallback(a, b))
            /\ ~SameSpan(a, b) =>
                   flast.out = ErrIncompatibleInterval(a.info.start, a.info.end,
                                                       b.info.start, b.info.end)
            /\ (SameSpan(a, b) /\ ~SameFallback(a, b)) =>
                   flast.out = ErrIncompatibleFallback
            /\ IsOk(flast.out) => IsElementwise(OpOf(flast.op), a, b, flast.out.val)

\* C13: when a try_*_assign returns an error the left operand is unchanged, in
\* elements, span and fallbacks, and the right operand is never modified.
C13_TryAssignFrame ==
    flast.op \in TryAssignOps =>
        /\ IsErr(flast.out) => fvec = flast.recv
        /\ fother = flast.other

\* C13 happens: a try_add_assign over equal spans fails on the fallbacks, with
\* an element of the right operand that an addition would have written.
C13_Witness ==
    /\ flast.op = "try_add_assign"
    /\ flast.out = ErrIncompatibleFallback
    /\ Len(FRecv.data) > 0
    /\ Len(FOther.data) > 0
    /\ FOther.data[1] # 0

\* The constructible operands compatible with a: those built over the Info of a.
CompatibleWith(a) ==
    LET rs == {Vector_from_data(data, a.info) : data \in FData}
              \cup {Vector_with_capacity(a.info)}
    IN  {r.val : r \in {x \in rs : IsOk(x)}}

\* (a + b)? + c and a + (b + c)?: the outcome of the first failing addition, or
\* of the last one.
AddLeft(ab, c) == IF IsOk(ab) THEN Vector_add(ab.val, c) ELSE ab
AddRight(a, bc) == IF IsOk(bc) THEN Vector_add(a, bc.val) ELSE bc

\* C14 as stated: for compatible a, b, c, a + b and b + a are both Ok with equal
\* data, span and fallbacks, and (a + b) + c equals a + (b + c); for incompatible
\* operands both orders fail.
C14_AddCommutativeAssociative ==
    flast.op = "add" =>
        LET a == FRecv
            b == FOther
            ab == flast.out
            ba == Vector_add(b, a)
        IN  IF SameSpan(a, b) /\ SameFallback(a, b)
            THEN /\ IsOk(ab)
                 /\ IsOk(ba)
                 /\ ab.val = ba.val
                 /\ \A c \in CompatibleWith(a) :
                        /\ IsOk(AddLeft(ab, c))
                        /\ AddLeft(ab, c) = AddRight(a, Vector_add(b, c))
            ELSE IsErr(ab) /\ IsErr(ba)

\* C14 amended: for compatible a, b, c, a + b and b + a have the same outcome,
\* which is Ok unless overflow checks are on and a sum of two elements
\* overflows (then both panic); (a + b) + c equals a + (b + c) whenever neither
\* grouping panics, and neither does without overflow checks; for incompatible
\* operands both orders fail with an error.
C14_AddCommutativeAssociativeAmended ==
    flast.op = "add" =>
        LET a == FRecv
            b == FOther
            ab == flast.out
            ba == Vector_add(b, a)
        IN  IF SameSpan(a, b) /\ SameFallback(a, b)
            THEN /\ ab = ba
                 /\ ab # Panic => IsOk(ab)
                 /\ ~overflow_checks => IsOk(ab)
                 /\ \A c \in CompatibleWith(a) :
                        LET l == AddLeft(ab, c)
                            r == AddRight(a, Vector_add(b, c))
                        IN  /\ (l # Panic /\ r # Panic) => (IsOk(l) /\ l = r)
                            /\ ~overflow_checks => (l # Panic /\ r # Panic)
            ELSE IsErr(ab) /\ IsErr(ba)

\* C14 happens: two compatible containers with different elements are added,
\* and a third compatible container exists whose elements are not all zero.
C14_Witness ==
    /\ flast.op = "add"
    /\ IsOk(flast.out)
    /\ SameSpan(FRecv, FOther) /\ SameFallback(FRecv, FOther)
    /\ Len(FRecv.data) > 1
    /\ Len(FOther.data) > 1
    /\ FRecv.data # FOther.data
    /\ \E c \in CompatibleWith(FRecv) : Len(c.data) > 1 /\ c.data[1] # 0

\* C15: check_len(len, start, end) with start <= end is total and fails with
\* Length{len, start, end} exactly when len # end - start + 1, for every value
\* of usize, end = usize::MAX included: the sums neither panic nor accept a
\* mismatching length by wrapping.
C15_CheckLenTotal ==
    (last.op = "check_len" /\ last.a <= last.b) =>
        last.out = IF last.data[1] # last.b - last.a + 1
                   THEN ErrLength(last.data[1], last.a, last.b)
                   ELSE Ok(<<>>)

C17_WriteIndex ==
    /\ flast.op = "index_mut" =>
        LET index == flast.a[1]
            value == flast.a[2]
            v == FRecv
        IN  IF index < v.info.start \/ index > v.info.end
            THEN flast.out = Panic /\ fvec = flast.recv
            ELSE /\ IsOk(flast.out)
                 /\ index - v.info.start < Len(v.data)
                 /\ fvec = Some([v EXCEPT !.data[index - v.info.start + 1] = value])
    /\ flast.op = "get_mut" =>
        LET index == flast.a[1]
            v == FRecv
        IN  flast.out = IF index < v.info.start \/ index > v.info.end
                        THEN Ok(None)
                        ELSE Ok(Some(index - v.info.start))

\* C18: +=, -=, *=, /= on overlay containers panic whenever the corresponding
\* try_*_assign would return an error, and otherwise leave the left operand in
\* exactly the state the try_*_assign would produce.
C18_AssignOperators ==
    flast.op \in AssignOps =>
        LET r == try_assign_of(OpOf(flast.op), FRecv, FOther)
        IN  /\ IsErr(r) => (flast.out = Panic /\ fvec = flast.recv)
            /\ IsOk(r) => (IsOk(flast.out) /\ fvec = Some(r.val))
            /\ r = Panic => flast.out = Panic

\* C18 happens: += panics on an operand over another span, both with elements.
C18_Witness ==
    /\ flast.op = "add_assign"
    /\ flast.out = Panic
    /\ ~SameSpan(FRecv, FOther)
    /\ Len(FRecv.data) > 0
    /\ Len(FOther.data) > 0

RangeOps == {"get_range", "b_get_range"}
RangeInclusiveOps == {"get_range_inclusive", "b_get_range_inclusive"}

\* C19: a rejecting get_range or get_range_inclusive reports Order{start', end'}
\* if start' > end', otherwise Indexing{self.start} if start' < self.start,
\* otherwise Indexing{self.end} if end' exceeds the upper bound (self.end + 1
\* for get_range, self.end for get_range_inclusive); the bound check rejects
\* nothing else and never overflows or panics, end = usize::MAX included.
C19_RangeErrors ==
    last.op \in RangeOps \cup RangeInclusiveOps =>
        LET s == last.a
            e == last.b
            upper == IF last.op \in RangeOps THEN Recv.end + 1 ELSE Recv.end
            indexed == IF last.op \in RangeOps
                       THEN index_range(RecvData, s - Recv.start, e - Recv.start)
                       ELSE index_range_inclusive(RecvData, s - Recv.start, e - Recv.start)
        IN  IF s > e THEN last.out = ErrOrder(s, e)
            ELSE IF s < Recv.start THEN last.out = ErrIndexing(Recv.start)
            ELSE IF e > upper THEN last.out = ErrIndexing(Recv.end)
            ELSE last.out = indexed

\* C20: from_num(value, start, end) and new(start, end) fail with
\* Order{start, end} iff start > end; for every start <= end of usize they
\* succeed with a container of span [start, end] and of end - start + 1
\* elements whose get(i) is value (the default of the type for new) for every
\* i in [start, end].
C20_FilledConstruction ==
    last.op \in {"from_num", "new"} =>
        LET start == last.a
            end == last.b
            value == IF last.op = "from_num" THEN last.data[1] ELSE DefaultElem
        IN  IF start > end
            THEN last.out = ErrOrder(start, end)
            ELSE /\ IsOk(last.out)
                 /\ last.out.val.start = start
                 /\ last.out.val.end = end
                 /\ Len(last.out.val.vector) = end - start + 1
                 /\ \A i \in start..end : OwnedVector_get(last.out.val, i) = Ok(value)

\* C21: vector![start; e0, ..., e(n-1)] yields an OwnedVector with start,
\* with end = start + n - 1 (end = start for the empty list) and with ek
\* readable at index start + k; the unwrap in the macro never fails, for any
\* list of elements whose last index is a usize, the empty list included.
C21_VectorMacro ==
    (last.op = "vector!" /\ last.a + Len(last.data) - 1 <= UsizeMax) =>
        LET start == last.a
            n == Len(last.data)
        IN  /\ IsOk(last.out)
            /\ last.out.val.start = start
            /\ last.out.val.end = IF n > 0 THEN start + n - 1 ELSE start
            /\ \A k \in 0..(n - 1) :
                   OwnedVector_get(last.out.val, start + k) = Ok(last.data[k + 1])

====
